---- MODULE Spec2Model ----
(***************************************************************************)
(* Model of Lab7_Homework.py, a Streamlit dashboard over the OWID CO2      *)
(* table.  One script run (top to bottom) is one atomic step, as Streamlit *)
(* runs the script to completion for every session start and every widget  *)
(* interaction.  The only state that survives a run is the st.cache_data   *)
(* store of load_data and the widget values of the session.                *)
(*                                                                         *)
(* Data frames are records [cols, rows]: the set of column names and the   *)
(* sequence of rows in frame order.  co2 is a float column, modelled by    *)
(* small naturals; a missing cell is NaN.  Percentages are exact rationals *)
(* [num, den].                                                             *)
(***************************************************************************)
EXTENDS Integers, Sequences, FiniteSets, TLC

\* ------------------------------------------------------------------ bounds
MaxRows == 2          \* rows of a fetched table (general family)
YearsBefore == 0      \* years range over 2000 - YearsBefore .. 2001
MaxCo2 == 2           \* raw co2 cells range over 1 .. MaxCo2 and NaN
MaxRankRows == 11     \* country rows of a fetched table (ranking family)
MaxSkew == 1          \* rows off the majority co2 value (ranking family)

\* ------------------------------------------------------- program constants
DefaultStartYear == 2000
TopN == 10
NaN == -1

Excluded == {"World", "International Transport", "Oceania", "Asia", "Europe", "Africa"}

PreviewCols == {"country", "year", "co2", "co2_per_capita", "population"}

\* Every entity name of the model, in the order Python's sorted() gives.
SortedNames ==
  << "Africa", "Argentina", "Asia", "Brazil", "Canada", "Chile", "China",
     "Egypt", "Europe", "France", "Germany", "India",
     "International Transport", "Japan", "Kenya", "Mexico", "Norway",
     "Oceania", "Peru", "Spain", "United States", "World" >>

\* ------------------------------------------------------------ data frames
Frame(cols, rows) == [cols |-> cols, rows |-> rows]

\* pd.DataFrame()
EmptyFrame == Frame({}, <<>>)

\* DataFrame.empty: some axis has length 0
IsEmpty(df) == df.cols = {} \/ df.rows = <<>>

Row(c, y, v) == [country |-> c, year |-> y, co2 |-> v]

Years == (DefaultStartYear - YearsBefore) .. (DefaultStartYear + 1)

Min2(a, b) == IF a <= b THEN a ELSE b
Max2(a, b) == IF a >= b THEN a ELSE b

\* ------------------------------------------------------------- load_data
\* df['year'].astype(int): raises when the column is absent or a cell is NaN
YearCastRaises(t) ==
  \/ "year" \notin t.cols
  \/ \E i \in DOMAIN t.rows : t.rows[i].year = NaN

\* df['co2'].fillna(0): raises when the column is absent
Co2FillRaises(t) == "co2" \notin t.cols

fillna(rows) ==
  [i \in DOMAIN rows |->
     [rows[i] EXCEPT !.co2 = IF rows[i].co2 = NaN THEN 0 ELSE rows[i].co2]]

\* load_data without its try/except: every failure leaves the function.
load_body_uncaught(fetch) ==
  IF ~fetch.ok \/ YearCastRaises(fetch.table) \/ Co2FillRaises(fetch.table)
  THEN [df |-> EmptyFrame, error |-> FALSE, raised |-> TRUE]
  ELSE [df |-> Frame(fetch.table.cols, fillna(fetch.table.rows)),
        error |-> FALSE, raised |-> FALSE]

\* load_data catching the failure of read_csv only.
load_body_transport_only(fetch) ==
  IF ~fetch.ok
  THEN [df |-> EmptyFrame, error |-> TRUE, raised |-> FALSE]
  ELSE IF YearCastRaises(fetch.table) \/ Co2FillRaises(fetch.table)
  THEN [df |-> EmptyFrame, error |-> FALSE, raised |-> TRUE]
  ELSE [df |-> Frame(fetch.table.cols, fillna(fetch.table.rows)),
        error |-> FALSE, raised |-> FALSE]

\* The body of load_data on one outcome of pd.read_csv.  fetch.ok = FALSE is
\* read_csv raising (transport failure).  The result says whether the except
\* branch ran (st.error) and whether an exception left the function.
load_body(fetch) ==
  IF ~fetch.ok \/ YearCastRaises(fetch.table) \/ Co2FillRaises(fetch.table)
  THEN [df |-> EmptyFrame, error |-> TRUE, raised |-> FALSE]
  ELSE [df |-> Frame(fetch.table.cols, fillna(fetch.table.rows)),
        error |-> FALSE, raised |-> FALSE]

\* ------------------------------------------------ preprocessing (l.46-57)
Unique(rows) == {rows[i].country : i \in DOMAIN rows}

\* sorted(data['country'].unique())
SortedUnique(rows) == SelectSeq(SortedNames, LAMBDA n : n \in Unique(rows))

\* list.remove(x): drops the first occurrence
RemoveFirst(s, x) ==
  LET k == CHOOSE i \in DOMAIN s : s[i] = x /\ \A j \in 1..(i - 1) : s[j] # x
  IN  SubSeq(s, 1, k - 1) \o SubSeq(s, k + 1, Len(s))

country_list_of(rows) ==
  <<"Global", "United States">> \o RemoveFirst(SortedUnique(rows), "World")

YearSet(rows) == {rows[i].year : i \in DOMAIN rows}
SetMin(S) == CHOOSE x \in S : \A y \in S : x <= y
SetMax(S) == CHOOSE x \in S : \A y \in S : x >= y

\* ------------------------------------------------------- widgets (l.62-77)
\* list.index(x): position of the first occurrence
IndexOf(s, x) == CHOOSE i \in DOMAIN s : s[i] = x /\ \A j \in 1..(i - 1) : s[j] # x

selectbox_default(options) ==
  options[IF \E i \in DOMAIN options : options[i] = "United States"
          THEN IndexOf(options, "United States") ELSE 1]

\* st.slider(min_value, max_value, value=(a, b)) when the default lies outside
\* [min_value, max_value]: Streamlit releases either reject the call or widen
\* the bounds to hold the value (swapping a reversed pair).
SliderDefaultOutside(lo, hi, v) == v[1] < lo \/ v[2] > hi \/ v[1] > v[2]

slider_widened(lo, hi, v) ==
  LET a == Min2(v[1], v[2])
      b == Max2(v[1], v[2])
  IN  [lo |-> Min2(a, lo), hi |-> Max2(b, hi), value |-> <<a, b>>]

\* -------------------------------------------------- filtering (l.81-107)
\* the year filter with an exclusive lower bound
filtered_rows_open(rows, selected, lo, hi) ==
  LET name == IF selected = "Global" THEN "World" ELSE selected
  IN  SelectSeq(rows, LAMBDA r : r.country = name /\ r.year > lo /\ r.year <= hi)

filtered_rows(rows, selected, lo, hi) ==
  LET name == IF selected = "Global" THEN "World" ELSE selected
  IN  SelectSeq(rows, LAMBDA r : r.country = name /\ r.year >= lo /\ r.year <= hi)

\* sort_values(by='co2', ascending=False): insertion of r into a descending
\* sequence.  The default sort kind is not stable, so rows of equal co2 come
\* out in frame order (stable) or in the opposite order.
InsertDesc(s, r, stable) ==
  LET k == Cardinality({i \in DOMAIN s :
                          s[i].co2 > r.co2 \/ (stable /\ s[i].co2 = r.co2)})
  IN  SubSeq(s, 1, k) \o <<r>> \o SubSeq(s, k + 1, Len(s))

RECURSIVE SortDescFrom(_, _, _)
SortDescFrom(acc, rows, stable) ==
  IF rows = <<>> THEN acc
  ELSE SortDescFrom(InsertDesc(acc, Head(rows), stable), Tail(rows), stable)

sort_values_desc(rows, stable) == SortDescFrom(<<>>, rows, stable)

head(rows, n) == SubSeq(rows, 1, Min2(n, Len(rows)))

\* the ranking without its sort: the first TopN qualifying rows in frame order
ranking_rows_unsorted(rows, hi, stable) ==
  head(SelectSeq(rows, LAMBDA r : r.year = hi /\ r.country \notin Excluded), TopN)

ranking_rows(rows, hi, stable) ==
  head(sort_values_desc(
         SelectSeq(rows, LAMBDA r : r.year = hi /\ r.country \notin Excluded),
         stable), TopN)

\* ---------------------------------------------------- metrics (l.120-126)
RECURSIVE SumCo2(_)
SumCo2(rows) == IF rows = <<>> THEN 0 ELSE Head(rows).co2 + SumCo2(Tail(rows))

MaxCo2Of(rows) == SetMax({rows[i].co2 : i \in DOMAIN rows})

\* Series.idxmax(): label of the first row holding the maximum
idxmax(rows) ==
  CHOOSE i \in DOMAIN rows :
    /\ rows[i].co2 = MaxCo2Of(rows)
    /\ \A j \in 1..(i - 1) : rows[j].co2 # MaxCo2Of(rows)

NoMetrics == [total |-> 0, mean |-> [num |-> 0, den |-> 1], peakYear |-> 0, peakValue |-> 0]

key_metrics(rows) ==
  [total     |-> SumCo2(rows),
   mean      |-> [num |-> SumCo2(rows), den |-> Len(rows)],
   peakYear  |-> rows[idxmax(rows)].year,
   peakValue |-> MaxCo2Of(rows)]

\* ------------------------------------------------------ trend (l.157-173)
NoChange == [num |-> 0, den |-> 1]

change_percent_of(rows) ==
  LET start_emission == rows[1].co2
      end_emission   == rows[Len(rows)].co2
  IN  IF start_emission # 0
      THEN [num |-> (end_emission - start_emission) * 100, den |-> start_emission]
      ELSE [num |-> 0, den |-> 1]

\* ---------------------------------------------------------------- state
VARIABLES
  cache,        \* st.cache_data store of load_data: <<>> or <<result>>
  fetches,      \* number of pd.read_csv calls made so far
  fetch_kind,   \* what the read_csv call met (see FetchKind)
  load_error,   \* the except branch of load_data ran (st.error)
  load_raised,  \* an exception left load_data
  data,         \* the module-level frame of line 41
  run           \* the other module-level names after the last script run,
                \* how the run ended, and the steps it executed

vars == << cache, fetches, fetch_kind, load_error, load_raised, data, run >>

\* ------------------------------------------------- what read_csv can meet
FetchFailed == [ok |-> FALSE, table |-> EmptyFrame]

SmallNames == {"World", "Chile"}

ColSets == {PreviewCols \ S : S \in {{}, {"year"}, {"co2"}, {"country"}}}

RawRows == {Row(c, y, v) : c \in SmallNames, y \in Years \cup {NaN},
                           v \in (1..MaxCo2) \cup {NaN}}

\* each (entity, year) pair occurs once in the source table
DistinctKeys(rows) ==
  \A i, j \in DOMAIN rows :
    i # j => rows[i].country # rows[j].country \/ rows[i].year # rows[j].year

RowSeqs == {rows \in UNION {[1..n -> RawRows] : n \in 0..MaxRows} : DistinctKeys(rows)}

SmallFetches ==
  {FetchFailed} \cup {[ok |-> TRUE, table |-> Frame(c, r)] : c \in ColSets, r \in RowSeqs}

\* The ranking family: the World and Europe rows, then one row per country
\* for the first n names of RankNames, all in the last year except possibly
\* the last row; co2 is 1 or 2, with at most MaxSkew rows on one of the two
\* values; the preview columns may lack population.
RankNames ==
  << "Argentina", "Brazil", "Canada", "China", "Egypt", "France", "Germany",
     "India", "Japan", "Kenya", "Mexico", "Norway", "Peru", "Spain" >>

RankYear == DefaultStartYear + 1

RankRows(n, co2s, lastYear) ==
  << Row("World", RankYear, 2), Row("Europe", RankYear, 2) >>
  \o [i \in 1..n |-> Row(RankNames[i], IF i = n THEN lastYear ELSE RankYear, co2s[i])]

Skewed(co2s) ==
  \E v \in {1, 2} : Cardinality({i \in DOMAIN co2s : co2s[i] = v}) <= MaxSkew

RankFetches ==
  {[ok |-> TRUE, table |-> Frame(c, RankRows(Len(co2s), co2s, y))] :
     c \in {PreviewCols, PreviewCols \ {"population"}},
     co2s \in UNION {{f \in [1..n -> {1, 2}] : Skewed(f)} :
                       n \in {m \in (MaxRankRows - 2)..MaxRankRows : m <= Len(RankNames)}},
     y \in {DefaultStartYear, RankYear}}

FetchKind(f) ==
  IF ~f.ok THEN "transport"
  ELSE IF "year" \notin f.table.cols THEN "no_year"
  ELSE IF "co2" \notin f.table.cols THEN "no_co2"
  ELSE IF \E i \in DOMAIN f.table.rows : f.table.rows[i].year = NaN THEN "bad_year"
  ELSE "parsed"

\* --------------------------------------------------- one run of the script
Blank ==
  [status |-> "idle", crash_line |-> 0, did |-> {},
   country_list |-> <<>>, min_year |-> 0, max_year |-> 0,
   slider_lo |-> 0, slider_hi |-> 0,
   selected_country |-> "", start_year |-> 0, end_year |-> 0,
   filtered_data |-> <<>>, country_ranking_data |-> <<>>,
   metrics |-> NoMetrics, change |-> NoChange]

\* the summary without its emptiness guards: an empty slice gets a bundle of
\* zeros and a zero change
Render_zeros(df, base) ==
  LET fd == base.filtered_data
      rk == base.country_ranking_data
      tableOk == PreviewCols \subseteq df.cols
  IN  [base EXCEPT
         !.metrics = IF fd # <<>> THEN key_metrics(fd) ELSE NoMetrics,
         !.change  = IF Len(fd) >= 2 THEN change_percent_of(fd) ELSE NoChange,
         !.did = base.did \cup {"metrics", "change", "line_chart"}
                 \cup (IF rk # <<>> THEN {"bar_chart"} ELSE {"ranking_info"})
                 \cup (IF tableOk THEN {"table"} ELSE {}),
         !.status = IF tableOk THEN "done" ELSE "crashed",
         !.crash_line = IF tableOk THEN 0 ELSE 223]

\* Lines 110-223 once both derived frames exist.
Render(df, base) ==
  LET fd == base.filtered_data
      rk == base.country_ranking_data
      hasMetrics == fd # <<>> /\ "co2" \in df.cols
      hasChange  == fd # <<>> /\ Len(fd) >= 2
      tableOk    == PreviewCols \subseteq df.cols
  IN  [base EXCEPT
         !.metrics = IF hasMetrics THEN key_metrics(fd) ELSE NoMetrics,
         !.change  = IF hasChange THEN change_percent_of(fd) ELSE NoChange,
         !.did = base.did
                 \cup (IF hasMetrics THEN {"metrics"} ELSE {"no_data_warning"})
                 \cup (IF hasChange THEN {"change"} ELSE {})
                 \cup (IF fd # <<>> THEN {"line_chart"} ELSE {"trend_info"})
                 \cup (IF rk # <<>> THEN {"bar_chart"} ELSE {"ranking_info"})
                 \cup (IF tableOk THEN {"table"} ELSE {}),
         !.status = IF tableOk THEN "done" ELSE "crashed",
         !.crash_line = IF tableOk THEN 0 ELSE 223]

\* Lines 79-107.
Filter(df, base, stable) ==
  Render(df,
    [base EXCEPT
       !.filtered_data = filtered_rows(df.rows, base.selected_country,
                                       base.start_year, base.end_year),
       !.country_ranking_data = ranking_rows(df.rows, base.end_year, stable),
       !.did = base.did \cup {"slice", "ranking"}])

\* Lines 43-77, then the rest.  fresh: the widgets have no value from the
\* user yet and return their defaults; otherwise they return wc and wr.
\* strict: this Streamlit rejects a slider default outside its bounds.
Script(df, fresh, wc, wr, strict, stable) ==
  IF IsEmpty(df) THEN [Blank EXCEPT !.status = "stopped"]
  ELSE IF "country" \notin df.cols
  THEN [Blank EXCEPT !.status = "crashed", !.crash_line = 49]
  ELSE IF "World" \notin Unique(df.rows)
  THEN [Blank EXCEPT !.status = "crashed", !.crash_line = 51]
  ELSE
    LET cl  == country_list_of(df.rows)
        mn  == SetMin(YearSet(df.rows))
        mx  == SetMax(YearSet(df.rows))
        dv  == <<DefaultStartYear, mx>>
        out == SliderDefaultOutside(mn, mx, dv)
        sl  == IF out THEN slider_widened(mn, mx, dv)
               ELSE [lo |-> mn, hi |-> mx, value |-> dv]
        sc  == IF fresh THEN selectbox_default(cl) ELSE wc
        yr  == IF fresh THEN sl.value ELSE wr
        pre == [Blank EXCEPT !.country_list = cl, !.min_year = mn,
                             !.max_year = mx, !.selected_country = sc,
                             !.did = {"entity_list", "year_bounds"}]
    IN  IF out /\ strict
        THEN [pre EXCEPT !.status = "crashed", !.crash_line = 70]
        ELSE Filter(df,
               [pre EXCEPT !.slider_lo = sl.lo, !.slider_hi = sl.hi,
                           !.start_year = yr[1], !.end_year = yr[2],
                           !.did = pre.did \cup {"selection"}],
               stable)

Show(df, r) ==
  /\ data' = df
  /\ run' = r

Init ==
  /\ cache = <<>>
  /\ fetches = 0
  /\ fetch_kind = "none"
  /\ load_error = FALSE
  /\ load_raised = FALSE
  /\ data = EmptyFrame
  /\ run = Blank

\* a cache that does not keep the empty result of a failed load
load_data_retry_empty(fetch) ==
  IF cache # <<>> /\ ~IsEmpty(cache[1])
  THEN /\ UNCHANGED << cache, fetches, fetch_kind, load_error, load_raised >>
  ELSE LET r == load_body(fetch)
       IN  /\ fetches' = fetches + 1
           /\ fetch_kind' = FetchKind(fetch)
           /\ load_error' = r.error
           /\ load_raised' = r.raised
           /\ cache' = IF r.raised THEN <<>> ELSE <<r.df>>

\* @st.cache_data around load_data: a stored result is returned as it is;
\* otherwise the body runs and its return value is stored.  An exception
\* leaving the body would store nothing.
load_data(fetch) ==
  IF cache # <<>>
  THEN /\ UNCHANGED << cache, fetches, fetch_kind, load_error, load_raised >>
  ELSE LET r == load_body(fetch)
       IN  /\ fetches' = fetches + 1
           /\ fetch_kind' = FetchKind(fetch)
           /\ load_error' = r.error
           /\ load_raised' = r.raised
           /\ cache' = IF r.raised THEN <<>> ELSE <<r.df>>

\* The first script run of the process: nothing is cached, load_data fetches.
ColdRun(Fetches) ==
  /\ cache = <<>>
  /\ fetches < 3
  /\ \E f \in Fetches, strict \in BOOLEAN, stable \in BOOLEAN :
       /\ load_data(f)
       /\ IF load_body(f).raised
          THEN Show(EmptyFrame, [Blank EXCEPT !.status = "crashed", !.crash_line = 41])
          ELSE Show(load_body(f).df,
                    Script(load_body(f).df, TRUE, "", <<0, 0>>, strict, stable))

\* A later session start (page load): widgets at their defaults.
WarmRun ==
  /\ cache # <<>>
  /\ \E f \in {FetchFailed}, strict \in BOOLEAN, stable \in BOOLEAN :
       /\ load_data(f)
       /\ Show(cache[1], Script(cache[1], TRUE, "", <<0, 0>>, strict, stable))

\* The user picks an entity among Names in the selectbox the last run
\* rendered; the script reruns with it and the year range as it stands.
SelectEntity(Names) ==
  /\ "selection" \in run.did
  /\ cache # <<>>
  /\ \E i \in DOMAIN run.country_list, stable \in BOOLEAN :
       /\ run.country_list[i] \in Names
       /\ load_data(FetchFailed)
       /\ Show(cache[1],
               Script(cache[1], FALSE, run.country_list[i],
                      <<run.start_year, run.end_year>>, FALSE, stable))

\* The user drags one handle of the slider the last run rendered; the script
\* reruns with the new range and the entity as it stands.
MoveSlider ==
  /\ "selection" \in run.did
  /\ cache # <<>>
  /\ \E lo \in run.slider_lo..run.slider_hi,
        hi \in run.slider_lo..run.slider_hi, stable \in BOOLEAN :
       /\ lo <= hi
       /\ lo = run.start_year \/ hi = run.end_year
       /\ load_data(FetchFailed)
       /\ Show(cache[1],
               Script(cache[1], FALSE, run.selected_country, <<lo, hi>>, FALSE, stable))

AllNames == {SortedNames[i] : i \in DOMAIN SortedNames} \cup {"Global"}

Next ==
  \/ ColdRun(SmallFetches)
  \/ WarmRun
  \/ SelectEntity(AllNames)
  \/ MoveSlider

Spec == Init /\ [][Next]_vars

NextRank ==
  \/ ColdRun(RankFetches)
  \/ WarmRun
  \/ SelectEntity({"Global", "United States", "Argentina"})
  \/ MoveSlider

SpecRank == Init /\ [][NextRank]_vars

\* ================================================================ claims
Ran(step) == step \in run.did

Aggregates == {"World", "International Transport", "Oceania", "Asia", "Europe", "Africa"}

\* the entity whose rows the selection asks for
Wanted == IF run.selected_country = "Global" THEN "World" ELSE run.selected_country

\* positions of the rows of data the selection matches
Matching ==
  {i \in DOMAIN data.rows :
     /\ data.rows[i].country = Wanted
     /\ run.start_year <= data.rows[i].year
     /\ data.rows[i].year <= run.end_year}

\* positions of the rows of data that qualify for the ranking
Qualifying ==
  {i \in DOMAIN data.rows :
     data.rows[i].year = run.end_year /\ data.rows[i].country \notin Aggregates}

Occurrences(rows, r) == Cardinality({i \in DOMAIN rows : rows[i] = r})

\* a / b = c / d for denominators that are not 0
SameRatio(x, y) == x.num * y.den = y.num * x.den

\* C1: the time-series slice is in ascending order of year, whatever the
\* order of the rows of the dataset.
C1_SliceAscendingByYear ==
  Ran("slice") =>
    \A i, j \in DOMAIN run.filtered_data :
      i < j => run.filtered_data[i].year <= run.filtered_data[j].year

\* C2: a run that has a selection derives the slice without failing, and the
\* slice holds exactly the rows of the dataset of the wanted entity ("World"
\* for "Global") with startYear <= year <= endYear, each as often as the
\* dataset holds it; it is empty when no row matches.
C2_SliceIsExactlyTheMatchingRows ==
  Ran("selection") =>
    /\ Ran("slice")
    /\ Len(run.filtered_data) = Cardinality(Matching)
    /\ \A k \in DOMAIN run.filtered_data :
         \E i \in Matching : data.rows[i] = run.filtered_data[k]
    /\ \A i \in Matching :
         Occurrences(run.filtered_data, data.rows[i])
           = Cardinality({j \in Matching : data.rows[j] = data.rows[i]})
    /\ (Matching = {} => run.filtered_data = <<>>)

C2_Witness ==
  /\ Ran("slice")
  /\ run.selected_country = "Global"
  /\ Len(run.filtered_data) = 1
  /\ \E i \in DOMAIN data.rows :
       data.rows[i].country = "World" /\ data.rows[i].year > run.end_year

\* C3: the ranking has min(10, q) rows for q qualifying rows (year = endYear,
\* entity not an aggregate); each of its rows is a qualifying row, taken once;
\* co2 descends; no qualifying row left out has more co2 than a row taken;
\* whichever entity is selected.
C3_RankingIsTopTen ==
  Ran("ranking") =>
    LET rk == run.country_ranking_data
    IN  /\ Len(rk) = Min2(10, Cardinality(Qualifying))
        /\ \A k \in DOMAIN rk : \E i \in Qualifying : data.rows[i] = rk[k]
        /\ \A k \in DOMAIN rk :
             Occurrences(rk, rk[k]) <= Occurrences(data.rows, rk[k])
        /\ \A k, l \in DOMAIN rk : k < l => rk[k].co2 >= rk[l].co2
        /\ \A i \in Qualifying :
             Occurrences(rk, data.rows[i]) = 0 =>
               \A k \in DOMAIN rk : rk[k].co2 >= data.rows[i].co2

C3_Witness ==
  /\ Ran("ranking")
  /\ run.selected_country = "Global"
  /\ Cardinality(Qualifying) > 10
  /\ Len(run.country_ranking_data) = 10
  /\ \E i \in Qualifying : data.rows[i].co2 = 2 /\ i > 12
  /\ \E i \in DOMAIN data.rows : i < 12 /\ data.rows[i].co2 = 1

\* C4: after a failed fetch load has returned an empty dataset without
\* raising, and every run halts at the emptiness check: it computes and
\* renders nothing and does not crash.
C4_FailedFetchHaltsTheRun ==
  fetch_kind = "transport" =>
    /\ ~load_raised
    /\ IsEmpty(data)
    /\ run = [Blank EXCEPT !.status = "stopped"]

C4_Witness ==
  /\ fetch_kind = "transport"
  /\ fetches = 1
  /\ run.status = "stopped"

Malformed == fetch_kind \in {"no_year", "no_co2", "bad_year"}

\* C5 as stated: on a fetched table without a year or co2 column, or with a
\* year that is not an integer, load propagates a failure and does not give
\* the empty dataset of a transport failure.
C5_MalformedTablePropagates ==
  Malformed => load_raised /\ ~(data = EmptyFrame /\ run.status = "stopped")

\* C5 as amended: on such a table load catches the failure, reports it and
\* returns the empty dataset of a transport failure; the run halts; no
\* failure leaves load.
C5_MalformedTableDegrades ==
  /\ ~load_raised
  /\ Malformed =>
       /\ load_error
       /\ data = EmptyFrame
       /\ cache = <<EmptyFrame>>
       /\ run = [Blank EXCEPT !.status = "stopped"]

C5_Witness ==
  /\ fetch_kind = "bad_year"
  /\ load_error
  /\ run.status = "stopped"

\* C6: over any sequence of runs the dataset is fetched at most once: once a
\* result is stored, every later run gets that stored result and fetches
\* nothing, also when the stored result is the empty dataset.
C6_FetchedAtMostOnce ==
  [][/\ fetches' <= 1
     /\ cache # <<>> => cache' = cache /\ fetches' = fetches /\ data' = cache[1]]_vars

C6_Witness ==
  /\ fetches = 1
  /\ cache = <<data>>
  /\ run.selected_country = "Global"
  /\ Ran("slice")

\* the rows of the slice with the smallest and the largest year
EarliestRow == CHOOSE r \in {run.filtered_data[i] : i \in DOMAIN run.filtered_data} :
                 \A i \in DOMAIN run.filtered_data : r.year <= run.filtered_data[i].year
LatestRow   == CHOOSE r \in {run.filtered_data[i] : i \in DOMAIN run.filtered_data} :
                 \A i \in DOMAIN run.filtered_data : r.year >= run.filtered_data[i].year

\* C7: a change metric is produced exactly when the slice has 2 rows or more,
\* and it is (last.co2 - first.co2) / first.co2 * 100 for the rows of the
\* earliest and the latest year of the slice, or 0 when first.co2 is 0.
C7_ChangeFromEarliestToLatest ==
  Ran("slice") /\ run.status = "done" =>
    /\ Ran("change") <=> Len(run.filtered_data) >= 2
    /\ Ran("change") =>
         IF EarliestRow.co2 # 0
         THEN SameRatio(run.change,
                        [num |-> (LatestRow.co2 - EarliestRow.co2) * 100,
                         den |-> EarliestRow.co2])
         ELSE run.change.num = 0

\* C8: for a non-empty slice peakValue is the largest co2 of the slice and
\* peakYear is the earliest year among the rows holding it.
C8_PeakIsEarliestMaximum ==
  Ran("metrics") =>
    LET fd   == run.filtered_data
        top  == {i \in DOMAIN fd : \A j \in DOMAIN fd : fd[i].co2 >= fd[j].co2}
    IN  /\ top # {}
        /\ \A i \in top : run.metrics.peakValue = fd[i].co2
        /\ \E i \in top : /\ run.metrics.peakYear = fd[i].year
                          /\ \A j \in top : fd[i].year <= fd[j].year

\* C9: on an empty slice the summary shows the no-data placeholders and
\* produces no metric; metrics are produced for a non-empty slice only.
C9_EmptySliceGivesNoData ==
  /\ Ran("slice") /\ run.filtered_data = <<>> =>
       /\ Ran("no_data_warning") /\ Ran("trend_info")
       /\ ~Ran("metrics") /\ ~Ran("change") /\ ~Ran("line_chart")
       /\ run.metrics = NoMetrics /\ run.change = NoChange
  /\ Ran("metrics") \/ Ran("change") =>
       /\ run.filtered_data # <<>>
       /\ ~Ran("no_data_warning")

C9_Witness ==
  /\ Ran("no_data_warning")
  /\ run.filtered_data = <<>>
  /\ run.selected_country = "Chile"
  /\ \E i \in DOMAIN data.rows : data.rows[i].country = "Chile"

\* C10: every selection of a run, the default one included, has
\* minYear <= startYear <= endYear <= maxYear for the smallest and largest
\* year of the dataset, and an entity other than "World".
C10_SelectionWithinDataset ==
  Ran("selection") =>
    /\ run.min_year <= run.start_year
    /\ run.start_year <= run.end_year
    /\ run.end_year <= run.max_year
    /\ run.selected_country # "World"

====
